---- MODULE Spec2Model ----
(***************************************************************************)
(* A model of the register-machine assembly interpreter of src/main.rs:    *)
(* the command-line register overrides, the one-pass parser that builds    *)
(* the instruction vector and the label table, and the fetch/execute loop. *)
(*                                                                         *)
(* A register value (Wrapping<u64>) is a little-endian sequence of         *)
(* NumLimbs limbs of LimbBits bits each, so that the full 64-bit width is  *)
(* kept.  Source text is kept as strings; a character is a string of       *)
(* length one.                                                             *)
(***************************************************************************)
EXTENDS Integers, Sequences, FiniteSets, TLC

\* ------------------------------------------------------------------------
\* Bounds of the model
\* ------------------------------------------------------------------------

\* Longest program drawn exhaustively from CoreLines.
MaxLines == 2

\* Number of loop iterations of main's execution loop that are explored.
MaxSteps == 7

\* ------------------------------------------------------------------------
\* Wrapping<u64>
\* ------------------------------------------------------------------------

LimbBits == 16

NumLimbs == 4

NumRegs == 8

LimbBase == 2 ^ LimbBits

\* The u64 whose value is the small natural number n (n < LimbBase^2 / 2).
U64(n) == <<n % LimbBase, (n \div LimbBase) % LimbBase, 0, 0>>

U64Max == <<LimbBase - 1, LimbBase - 1, LimbBase - 1, LimbBase - 1>>

IsU64(v) == /\ DOMAIN v = 1..NumLimbs
            /\ \A i \in 1..NumLimbs : v[i] \in 0..(LimbBase - 1)

RECURSIVE AddCarry(_, _, _, _)
AddCarry(a, b, i, carry) ==
    IF i > NumLimbs THEN <<>>
    ELSE LET s == a[i] + b[i] + carry
         IN  <<s % LimbBase>> \o AddCarry(a, b, i + 1, s \div LimbBase)

\* An addition that loses the carry between the 16-bit parts.
wrapping_add_dropcarry(a, b) == [i \in 1..NumLimbs |-> (a[i] + b[i]) % LimbBase]

\* Wrapping<u64> + Wrapping<u64>
wrapping_add(a, b) == AddCarry(a, b, 1, 0)

RECURSIVE SubBorrow(_, _, _, _)
SubBorrow(a, b, i, borrow) ==
    IF i > NumLimbs THEN <<>>
    ELSE LET s == a[i] - b[i] - borrow
         IN  IF s < 0 THEN <<s + LimbBase>> \o SubBorrow(a, b, i + 1, 1)
                      ELSE <<s>> \o SubBorrow(a, b, i + 1, 0)

\* Wrapping<u64> - Wrapping<u64>
wrapping_sub(a, b) == SubBorrow(a, b, 1, 0)

\* &, | and ^ on one bit
AndBit(p, q) == p * q

OrBit(p, q) == IF p + q > 0 THEN 1 ELSE 0

XorBit(p, q) == (p + q) % 2

\* The operation of the given kind on the n low bits of x and y.
RECURSIVE BitOp(_, _, _, _)
BitOp(kind, x, y, n) ==
    IF n = 0 THEN 0
    ELSE (CASE kind = "And" -> AndBit(x % 2, y % 2)
            [] kind = "Or" -> OrBit(x % 2, y % 2)
            [] kind = "Xor" -> XorBit(x % 2, y % 2))
         + 2 * BitOp(kind, x \div 2, y \div 2, n - 1)

bitand(a, b) == [i \in 1..NumLimbs |-> BitOp("And", a[i], b[i], LimbBits)]

bitor(a, b) == [i \in 1..NumLimbs |-> BitOp("Or", a[i], b[i], LimbBits)]

bitxor(a, b) == [i \in 1..NumLimbs |-> BitOp("Xor", a[i], b[i], LimbBits)]

bitnot(a) == [i \in 1..NumLimbs |-> (LimbBase - 1) - a[i]]

\* u64 << n and u64 >> n for 0 <= n < 64
ShlBits(x, n) ==
    LET q == n \div LimbBits
        r == n % LimbBits
    IN  [i \in 1..NumLimbs |->
            (IF i - q >= 1 THEN (x[i - q] % (2 ^ (LimbBits - r))) * (2 ^ r) ELSE 0)
          + (IF i - q - 1 >= 1 THEN x[i - q - 1] \div (2 ^ (LimbBits - r)) ELSE 0)]

ShrBits(x, n) ==
    LET q == n \div LimbBits
        r == n % LimbBits
    IN  [i \in 1..NumLimbs |->
            (IF i + q <= NumLimbs THEN x[i + q] \div (2 ^ r) ELSE 0)
          + (IF i + q + 1 <= NumLimbs
                THEN (x[i + q + 1] % (2 ^ r)) * (2 ^ (LimbBits - r)) ELSE 0)]

\* The shift amount is a u64; the shift overflows when it is >= 64.
ShiftOverflows(amount) ==
    \/ amount[1] >= NumLimbs * LimbBits
    \/ \E i \in 2..NumLimbs : amount[i] # 0

ShiftMasked(amount) == amount[1] % (NumLimbs * LimbBits)

\* v as usize, for v < 8 (a register index)
AsIndex(v) == v[1]

\* value.0 == 0
IsZero(v) == \A i \in 1..NumLimbs : v[i] = 0

\* A test that lets index 8 through.
AtLeastNumRegs_above(v) == v[1] > NumRegs \/ \E i \in 2..NumLimbs : v[i] # 0

\* reg >= 8  (reg : usize)
AtLeastNumRegs(v) == v[1] >= NumRegs \/ \E i \in 2..NumLimbs : v[i] # 0

\* Display for an unsigned integer: its decimal digits.
RECURSIVE DivRem10(_, _, _)
DivRem10(v, i, rem) ==
    IF i = 0 THEN [quot |-> <<>>, rem |-> rem]
    ELSE LET cur == rem * LimbBase + v[i]
             rest == DivRem10(v, i - 1, cur % 10)
         IN  [quot |-> rest.quot \o <<cur \div 10>>, rem |-> rest.rem]

RECURSIVE Display(_)
Display(v) ==
    LET d == DivRem10(v, NumLimbs, 0)
    IN  IF IsZero(d.quot) THEN ToString(d.rem)
        ELSE Display(d.quot) \o ToString(d.rem)

\* ------------------------------------------------------------------------
\* Option<T>:  None, Some(v)
\* ------------------------------------------------------------------------

None == <<>>

Some(v) == <<v>>

Unwrap(opt) == opt[1]

\* ------------------------------------------------------------------------
\* str
\* ------------------------------------------------------------------------

Char(s, i) == SubSeq(s, i, i)

\* &s[..n]
Prefix(s, n) == SubSeq(s, 1, n)

\* &s[i-1..]  (i is the 1-based position of the first character kept)
Suffix(s, i) == SubSeq(s, i, Len(s))

\* Position of the first occurrence of pat in s at or after position i; 0 if none.
RECURSIVE Find(_, _, _)
Find(s, pat, i) ==
    IF i + Len(pat) - 1 > Len(s) THEN 0
    ELSE IF SubSeq(s, i, i + Len(pat) - 1) = pat THEN i
    ELSE Find(s, pat, i + 1)

UpperLetters == "ABCDEFGHIJKLMNOPQRSTUVWXYZ"

LowerLetters == "abcdefghijklmnopqrstuvwxyz"

UpperSet == {Char(UpperLetters, k) : k \in 1..Len(UpperLetters)}

LowerChar(c) ==
    IF c \in UpperSet THEN Char(LowerLetters, Find(UpperLetters, c, 1)) ELSE c

RECURSIVE to_lowercase(_)
to_lowercase(s) ==
    IF s = "" THEN "" ELSE LowerChar(Char(s, 1)) \o to_lowercase(Suffix(s, 2))

\* str::split_once: the text before and after the first occurrence of pat.
split_once(s, pat) ==
    LET k == Find(s, pat, 1)
    IN  IF k = 0 THEN None
        ELSE Some(<<Prefix(s, k - 1), Suffix(s, k + Len(pat))>>)

IsWhitespace(c) == c \in {" ", "\t"}

RECURSIVE SplitWs(_, _, _)
SplitWs(s, i, cur) ==
    IF i > Len(s) THEN (IF cur = "" THEN <<>> ELSE <<cur>>)
    ELSE IF IsWhitespace(Char(s, i))
         THEN (IF cur = "" THEN <<>> ELSE <<cur>>) \o SplitWs(s, i + 1, "")
         ELSE SplitWs(s, i + 1, cur \o Char(s, i))

\* str::split_whitespace, collected: the non-empty maximal whitespace-free pieces.
split_whitespace(s) == SplitWs(s, 1, "")

\* Iterator<&str>::collect::<String>(): the concatenation of the items.
RECURSIVE collect(_)
collect(items) ==
    IF items = <<>> THEN "" ELSE Head(items) \o collect(Tail(items))

\* str::split(pat), collected: always at least one (possibly empty) piece.
RECURSIVE split(_, _)
split(s, pat) ==
    LET k == Find(s, pat, 1)
    IN  IF k = 0 THEN <<s>>
        ELSE <<Prefix(s, k - 1)>> \o split(Suffix(s, k + Len(pat)), pat)

RECURSIVE trim_start(_)
trim_start(s) ==
    IF s # "" /\ IsWhitespace(Char(s, 1)) THEN trim_start(Suffix(s, 2)) ELSE s

RECURSIVE trim_end(_)
trim_end(s) ==
    IF s # "" /\ IsWhitespace(Char(s, Len(s)))
    THEN trim_end(Prefix(s, Len(s) - 1)) ELSE s

trim(s) == trim_end(trim_start(s))

starts_with(s, p) == Len(s) >= Len(p) /\ Prefix(s, Len(p)) = p

\* ------------------------------------------------------------------------
\* str::parse::<u64>, ::<usize>, ::<i64>
\* ------------------------------------------------------------------------

DecimalDigits == "0123456789"

\* The value of a decimal digit, -1 for any other character.
DigitVal(c) == Find(DecimalDigits, c, 1) - 1

\* v * 10 + d with the carry out of the top limb (checked_mul, checked_add).
RECURSIVE MulAdd10(_, _, _)
MulAdd10(v, i, carry) ==
    IF i > NumLimbs THEN [val |-> <<>>, carry |-> carry]
    ELSE LET cur == v[i] * 10 + carry
             rest == MulAdd10(v, i + 1, cur \div LimbBase)
         IN  [val |-> <<cur % LimbBase>> \o rest.val, carry |-> rest.carry]

RECURSIVE ParseDigits(_, _, _)
ParseDigits(s, i, acc) ==
    IF i > Len(s) THEN Some(acc)
    ELSE LET d == DigitVal(Char(s, i))
         IN  IF d < 0 THEN None
             ELSE LET m == MulAdd10(acc, 1, d)
                  IN  IF m.carry # 0 THEN None
                      ELSE ParseDigits(s, i + 1, m.val)

\* <u64 as FromStr>::from_str (usize has the same width): an optional '+',
\* then one or more decimal digits whose value fits in 64 bits.
parse_u64(s) ==
    IF s = "" THEN None
    ELSE LET digits == IF Char(s, 1) = "+" THEN Suffix(s, 2) ELSE s
         IN  IF digits = "" THEN None ELSE ParseDigits(digits, 1, U64(0))

I64MinMagnitude == <<0, 0, 0, LimbBase \div 2>>

\* A conversion that keeps the magnitude and drops the sign.
parse_i64_magnitude(s) ==
    IF s = "" THEN None
    ELSE LET digits == IF Char(s, 1) \in {"+", "-"} THEN Suffix(s, 2) ELSE s
         IN  IF digits = "" THEN None ELSE ParseDigits(digits, 1, U64(0))

\* <i64 as FromStr>::from_str followed by 'as u64'.
parse_i64_as_u64(s) ==
    IF s = "" THEN None
    ELSE LET neg == Char(s, 1) = "-"
             digits == IF Char(s, 1) \in {"+", "-"} THEN Suffix(s, 2) ELSE s
             mag == IF digits = "" THEN None ELSE ParseDigits(digits, 1, U64(0))
         IN  IF mag = None THEN None
             ELSE LET m == Unwrap(mag)
                  IN  IF neg
                      THEN IF m[NumLimbs] < LimbBase \div 2 \/ m = I64MinMagnitude
                           THEN Some(wrapping_sub(U64(0), m)) ELSE None
                      ELSE IF m[NumLimbs] < LimbBase \div 2 THEN Some(m) ELSE None

\* ------------------------------------------------------------------------
\* Result of a step that may call report_error (which exits the process)
\* ------------------------------------------------------------------------

Ok(v) == [ok |-> TRUE, val |-> v]

\* A value formatted between backquotes in a message.  A TLA+ string cannot
\* hold a backquote, so the model writes an apostrophe in its place.
Quoted(text) == "'" \o text \o "'"

\* report_error(error): the message goes to stderr and the process exits with 1.
report_error(error) == [ok |-> FALSE, exit |-> "exit1", error |-> error]

\* A panic of the runtime: the message goes to stderr and the process aborts.
panic(message) == [ok |-> FALSE, exit |-> "panicked", error |-> message]

report_error_if_none(opt, error) ==
    IF opt = None THEN report_error(error) ELSE Ok(Unwrap(opt))

\* ------------------------------------------------------------------------
\* Operand readers.  'operands' is what is left of the iterator over the
\* comma-separated operands; Advance is the iterator after one next().
\* ------------------------------------------------------------------------

Advance(operands) == IF operands = <<>> THEN <<>> ELSE Tail(operands)

GarbageFollowing(index) ==
    "garbage following instruction on line " \o ToString(index + 1)

read_reg_(i) ==
    IF i = <<>> THEN None
    ELSE LET n == trim(Head(i))
         IN  IF starts_with(n, "r") THEN parse_u64(Suffix(n, 2)) ELSE None

read_reg(operands, index) ==
    LET r == read_reg_(operands)
    IN  IF r = None THEN report_error(GarbageFollowing(index))
        ELSE IF AtLeastNumRegs(Unwrap(r))
             THEN report_error("r" \o Display(Unwrap(r)) \o " does not exist")
             ELSE Ok(AsIndex(Unwrap(r)))

read_imm_(i) ==
    IF i = <<>> THEN None ELSE parse_u64(trim(Head(i)))

read_imm(operands, index) ==
    report_error_if_none(read_imm_(operands), GarbageFollowing(index))

read_label_(i) ==
    IF i = <<>> THEN None ELSE Some(trim(Head(i)))

read_label(operands, index) ==
    report_error_if_none(read_label_(operands), GarbageFollowing(index))

\* ------------------------------------------------------------------------
\* Instruction::parse
\* ------------------------------------------------------------------------

Noop == [op |-> "Noop"]

\* Instruction::X { reg: read_reg(..) }
ParseReg(kind, operands, index) ==
    LET reg == read_reg(operands, index)
    IN  IF ~reg.ok THEN reg ELSE Ok([op |-> kind, reg |-> reg.val])

\* Instruction::Mov { to: read_reg(..), from: read_reg(..) }
ParseMov(operands, index) ==
    LET to == read_reg(operands, index)
        from == read_reg(Advance(operands), index)
    IN  IF ~to.ok THEN to
        ELSE IF ~from.ok THEN from
        ELSE Ok([op |-> "Mov", to |-> to.val, from |-> from.val])

\* Instruction::X { to: read_reg(..), op1: read_reg(..), op2: read_reg(..) }
ParseThreeRegs(kind, operands, index) ==
    LET to == read_reg(operands, index)
        op1 == read_reg(Advance(operands), index)
        op2 == read_reg(Advance(Advance(operands)), index)
    IN  IF ~to.ok THEN to
        ELSE IF ~op1.ok THEN op1
        ELSE IF ~op2.ok THEN op2
        ELSE Ok([op |-> kind, to |-> to.val, op1 |-> op1.val, op2 |-> op2.val])

\* Instruction::X { reg: read_reg(..), amount: read_imm(..) }
ParseShift(kind, operands, index) ==
    LET reg == read_reg(operands, index)
        amount == read_imm(Advance(operands), index)
    IN  IF ~reg.ok THEN reg
        ELSE IF ~amount.ok THEN amount
        ELSE Ok([op |-> kind, reg |-> reg.val, amount |-> amount.val])

\* Instruction::X { label: read_label(..) }
ParseJump(kind, operands, index) ==
    LET label == read_label(operands, index)
    IN  IF ~label.ok THEN label ELSE Ok([op |-> kind, label |-> label.val])

\* An insertion that keeps the entry of a label already in the table.
add_label_first_wins(labels, label, index) ==
    [l \in DOMAIN labels \cup {label} |->
        IF l \in DOMAIN labels THEN labels[l] ELSE index]

\* An insertion that records the index of the line after the declaration.
add_label_next(labels, label, index) ==
    [l \in DOMAIN labels \cup {label} |-> IF l = label THEN index + 1 ELSE labels[l]]

\* State::add_label
add_label(labels, label, index) ==
    [l \in DOMAIN labels \cup {label} |-> IF l = label THEN index ELSE labels[l]]

\* The text left of a line once its comment is removed (the three 'let code').
StripComment(lowercase) ==
    LET slashes == split_once(lowercase, "//")
        semi == split_once(lowercase, ";")
        hash == split_once(lowercase, "#")
        code1 == IF slashes = None THEN lowercase ELSE Unwrap(slashes)[1]
        code2 == IF semi = None THEN code1 ELSE Unwrap(semi)[1]
        code3 == IF hash = None THEN code2 ELSE Unwrap(hash)[1]
    IN  code3

\* The first whitespace-separated token (None when there is none).
FirstToken(code) ==
    LET tokens == split_whitespace(code)
    IN  IF tokens = <<>> THEN None ELSE Some(Head(tokens))

\* The remaining tokens, concatenated and split at the commas.
Operands(code) == split(collect(Advance(split_whitespace(code))), ",")

\* The closure returned by Instruction::parse, applied to (index, src) with
\* the label table 'labels': the instruction and the new label table, or the
\* fatal error.
parse(labels, index, src) ==
    LET code == StripComment(to_lowercase(src))
        first == FirstToken(code)
        operands == Operands(code)
        Plain(r) == IF ~r.ok THEN r ELSE Ok([inst |-> r.val, labels |-> labels])
    IN  IF first = None THEN Ok([inst |-> Noop, labels |-> labels])
        ELSE LET m == trim(Unwrap(first))
             IN  CASE m = "zero" -> Plain(ParseReg("Zero", operands, index))
                   [] m = "debug" -> Plain(Ok([op |-> "Debug"]))
                   [] m = "mov" -> Plain(ParseMov(operands, index))
                   [] m = "add" -> Plain(ParseThreeRegs("Add", operands, index))
                   [] m = "sub" -> Plain(ParseThreeRegs("Sub", operands, index))
                   [] m = "inc" -> Plain(ParseReg("Inc", operands, index))
                   [] m = "dec" -> Plain(ParseReg("Dec", operands, index))
                   [] m = "and" -> Plain(ParseThreeRegs("And", operands, index))
                   [] m = "or" -> Plain(ParseThreeRegs("Or", operands, index))
                   [] m = "xor" -> Plain(ParseThreeRegs("Xor", operands, index))
                   [] m = "not" -> Plain(ParseReg("Not", operands, index))
                   [] m = "shl" -> Plain(ParseShift("Shl", operands, index))
                   [] m = "shr" -> Plain(ParseShift("Shr", operands, index))
                   [] m = "jz" -> Plain(ParseJump("Jz", operands, index))
                   [] m = "jnz" -> Plain(ParseJump("Jnz", operands, index))
                   [] m = "j" -> Plain(ParseJump("J", operands, index))
                   [] OTHER ->
                        LET decl == report_error_if_none(split_once(m, ":"),
                                        "garbage instruction " \o Quoted(m))
                        IN  IF ~decl.ok THEN decl
                            ELSE Ok([inst |-> Noop,
                                     labels |-> add_label(labels, decl.val[1], index)])

\* ------------------------------------------------------------------------
\* The state of the process
\* ------------------------------------------------------------------------

VARIABLES
    args,             \* std::env::args().skip(2): the register overrides
    content,          \* content.lines(): the source lines
    overflow_checks,  \* the build's overflow checks: "checked" (debug profile),
                      \* "wrapping" (release profile), "unobserved" as long as
                      \* no operation of the run has depended on them
    argi,             \* position of the loop over the overrides (1-based)
    registers,        \* state.registers
    zero,             \* state.zero
    labels,           \* state.labels
    instruction,      \* the instruction vector collected so far
    pc,               \* pc of main
    status,           \* "running", "finished" (exit 0), "exit1", "panicked"
    stderr,           \* the diagnostic printed by report_error or by a panic
    steps             \* iterations of the execution loop so far

vars == <<args, content, overflow_checks, argi, registers, zero, labels,
          instruction, pc, status, stderr, steps>>

Registers == 0..(NumRegs - 1)

\* with_zero without the update of the flag.
with_zero_keeps_flag(st, reg, value) == [st EXCEPT !.registers[reg] = value]

\* State::with_zero
with_zero(st, reg, value) ==
    [st EXCEPT !.registers[reg] = value, !.zero = IsZero(value)]

\* A write that also clears the register after the one written.
SetReg_and_next(st, reg, value) ==
    [st EXCEPT !.registers[reg] = value, !.registers[(reg + 1) % NumRegs] = U64(0)]

\* state[reg] = value
SetReg(st, reg, value) == [st EXCEPT !.registers[reg] = value]

UnknownLabel(label, index) ==
    "unknown label " \o Quoted(label) \o " on line " \o ToString(index + 1)

\* A lookup that ignores a missing label and goes on with the next line.
Resolve_or_continue(st, label, index) ==
    IF label \in DOMAIN st.labels
    THEN Ok([state |-> st, next |-> st.labels[label]])
    ELSE Ok([state |-> st, next |-> index + 1])

\* A lookup that only finds the labels declared at or before the jump.
Resolve_backward(st, label, index) ==
    IF label \in DOMAIN st.labels /\ st.labels[label] <= index
    THEN Ok([state |-> st, next |-> st.labels[label]])
    ELSE report_error(UnknownLabel(label, index))

\* *report_error_if_none(state.labels.get(label), ..)
Resolve(st, label, index) ==
    IF label \in DOMAIN st.labels
    THEN Ok([state |-> st, next |-> st.labels[label]])
    ELSE report_error(UnknownLabel(label, index))

\* Jz with its test inverted.
JzTaken_inverted(st) == ~st.zero

\* 'if state.zero' of Jz and 'if !state.zero' of Jnz
JzTaken(st) == st.zero

JnzTaken(st) == ~st.zero

\* state[reg].0 << amount and >> amount, amount : u64
ShiftBy(kind, st, reg, amount, index, build) ==
    LET Bits(x, n) == IF kind = "Shl" THEN ShlBits(x, n) ELSE ShrBits(x, n)
    IN
    IF ShiftOverflows(amount)
    THEN IF build = "checked"
         THEN panic(IF kind = "Shl" THEN "attempt to shift left with overflow"
                                    ELSE "attempt to shift right with overflow")
         ELSE Ok([state |-> SetReg(st, reg, Bits(st.registers[reg], ShiftMasked(amount))),
                  next |-> index + 1])
    ELSE Ok([state |-> SetReg(st, reg, Bits(st.registers[reg], amount[1])),
             next |-> index + 1])

\* An increment of two.
One_two == U64(2)

\* Wrapping(1), the operand of Inc and Dec
One == U64(1)

\* Instruction::apply(&self, state, index): the new state and the next pc, or
\* the error that ends the process.  stdin_ok is whether Debug's read_line
\* succeeds, build the overflow checks of the build.
apply(self, st, index, stdin_ok, build) ==
    LET Falls(new) == Ok([state |-> new, next |-> index + 1])
        R(r) == st.registers[r]
    IN  CASE self.op = "Noop" -> Falls(st)
          [] self.op = "Debug" ->
                IF stdin_ok THEN Falls(st)
                ELSE report_error("IO error. Did you close stdin?")
          [] self.op = "Zero" -> Falls(SetReg(st, self.reg, U64(0)))
          [] self.op = "Mov" -> Falls(SetReg(st, self.to, R(self.from)))
          [] self.op = "Add" ->
                Falls(with_zero(st, self.to, wrapping_add(R(self.op1), R(self.op2))))
          [] self.op = "Sub" ->
                Falls(with_zero(st, self.to, wrapping_sub(R(self.op1), R(self.op2))))
          [] self.op = "Inc" ->
                Falls(with_zero(st, self.reg, wrapping_add(R(self.reg), One)))
          [] self.op = "Dec" ->
                Falls(with_zero(st, self.reg, wrapping_sub(R(self.reg), One)))
          [] self.op = "And" ->
                Falls(with_zero(st, self.to, bitand(R(self.op1), R(self.op2))))
          [] self.op = "Or" ->
                Falls(with_zero(st, self.to, bitor(R(self.op1), R(self.op2))))
          [] self.op = "Xor" ->
                Falls(with_zero(st, self.to, bitxor(R(self.op1), R(self.op2))))
          [] self.op = "Not" -> Falls(with_zero(st, self.reg, bitnot(R(self.reg))))
          [] self.op = "Shl" -> ShiftBy("Shl", st, self.reg, self.amount, index, build)
          [] self.op = "Shr" -> ShiftBy("Shr", st, self.reg, self.amount, index, build)
          [] self.op = "Jz" ->
                IF JzTaken(st) THEN Resolve(st, self.label, index) ELSE Falls(st)
          [] self.op = "Jnz" ->
                IF JnzTaken(st) THEN Resolve(st, self.label, index) ELSE Falls(st)
          [] self.op = "J" -> Resolve(st, self.label, index)

\* ------------------------------------------------------------------------
\* interpret_arg
\* ------------------------------------------------------------------------

\* Ok(<<reg, value>>), Err (a record with ok = FALSE and the arg), or the
\* fatal error of an index that is not a register.
interpret_arg(arg) ==
    LET parts == split_once(arg, "=")
        UnableToParse == [ok |-> FALSE, exit |-> "err", error |-> arg]
    IN  IF parts = None THEN UnableToParse
        ELSE LET before == Unwrap(parts)[1]
                 after == Unwrap(parts)[2]
                 value == IF parse_u64(after) # None THEN parse_u64(after)
                          ELSE parse_i64_as_u64(after)
             IN  IF value = None THEN UnableToParse
                 ELSE IF ~(starts_with(before, "r") \/ starts_with(before, "R"))
                      THEN UnableToParse
                 ELSE LET reg == parse_u64(Suffix(before, 2))
                      IN  IF reg = None THEN UnableToParse
                          ELSE IF AtLeastNumRegs(Unwrap(reg))
                               THEN report_error("r" \o Display(Unwrap(reg))
                                                     \o " does not exist")
                               ELSE Ok(<<AsIndex(Unwrap(reg)), Unwrap(value)>>)

\* ------------------------------------------------------------------------
\* main
\* ------------------------------------------------------------------------

ArgsDone == argi > Len(args)

\* Parsing that hands over to the execution loop after the first line.
ParseDone_streaming ==
    Len(instruction) >= 1 \/ Len(instruction) = Len(content)

ParseDone == Len(instruction) = Len(content)

\* One iteration of `for arg in std::env::args().skip(2).map(interpret_arg)`.
InterpretArg ==
    /\ status = "running"
    /\ ~ArgsDone
    /\ LET r == interpret_arg(args[argi])
       IN  IF r.ok
           THEN /\ registers' = [registers EXCEPT ![r.val[1]] = r.val[2]]
                /\ argi' = argi + 1
                /\ UNCHANGED <<status, stderr>>
           ELSE /\ status' = "exit1"
                /\ stderr' = IF r.exit = "err"
                             THEN "Unable to parse arg: " \o Quoted(r.error)
                             ELSE r.error
                /\ UNCHANGED <<registers, argi>>
    /\ UNCHANGED <<args, content, overflow_checks, zero, labels, instruction,
                   pc, steps>>

\* One item of content.lines().enumerate().map(Instruction::parse(&mut state)).
ParseLine ==
    /\ status = "running"
    /\ ArgsDone
    /\ ~ParseDone
    /\ LET index == Len(instruction)
           r == parse(labels, index, content[index + 1])
       IN  IF r.ok
           THEN /\ instruction' = Append(instruction, r.val.inst)
                /\ labels' = r.val.labels
                /\ UNCHANGED <<status, stderr>>
           ELSE /\ status' = r.exit
                /\ stderr' = r.error
                /\ UNCHANGED <<instruction, labels>>
    /\ UNCHANGED <<args, content, overflow_checks, argi, registers, zero, pc,
                   steps>>

\* A loop that stops one instruction early.
LoopCondition_early(p, len) == p + 1 < len

\* while pc != instruction.len()
LoopCondition(p, len) == p # len

\* Whether executing `self` depends on the overflow checks of the build.
OverflowSensitive(self) ==
    self.op \in {"Shl", "Shr"} /\ ShiftOverflows(self.amount)

\* One iteration of the execution loop: pc = instruction[pc].apply(&mut state, pc).
Step ==
    /\ status = "running"
    /\ ArgsDone
    /\ ParseDone
    /\ LoopCondition(pc, Len(instruction))
    /\ steps < MaxSteps
    /\ LET self == instruction[pc + 1]
           st == [registers |-> registers, zero |-> zero, labels |-> labels]
       IN  \E stdin_ok \in (IF self.op = "Debug" THEN BOOLEAN ELSE {TRUE}),
              build \in (IF OverflowSensitive(self) /\ overflow_checks = "unobserved"
                         THEN {"checked", "wrapping"} ELSE {overflow_checks}) :
              LET r == apply(self, st, pc, stdin_ok, build)
              IN  /\ IF r.ok
                     THEN /\ registers' = r.val.state.registers
                          /\ zero' = r.val.state.zero
                          /\ labels' = r.val.state.labels
                          /\ pc' = r.val.next
                          /\ UNCHANGED <<status, stderr>>
                     ELSE /\ status' = r.exit
                          /\ stderr' = r.error
                          /\ UNCHANGED <<registers, zero, labels, pc>>
                  /\ overflow_checks' = build
    /\ steps' = steps + 1
    /\ UNCHANGED <<args, content, argi, instruction>>

\* The loop ends: "Finished:" and the dump are printed and main returns.
Finish ==
    /\ status = "running"
    /\ ArgsDone
    /\ ParseDone
    /\ ~LoopCondition(pc, Len(instruction))
    /\ status' = "finished"
    /\ UNCHANGED <<args, content, overflow_checks, argi, registers, zero,
                   labels, instruction, pc, stderr, steps>>

Next == InterpretArg \/ ParseLine \/ Step \/ Finish

\* ------------------------------------------------------------------------
\* Inputs
\* ------------------------------------------------------------------------

\* All the sequences of at most n elements of S
SeqsUpTo(S, n) == UNION {[1..k -> S] : k \in 0..n}

\* One line of every instruction kind, a label declaration and a blank line.
\* Any jump to l is a jump to an undeclared label when no line declares l.
CoreLines ==
    {"", "debug", "zero r0", "mov r0,r1", "add r0,r0,r1", "sub r0,r0,r1",
     "inc r0", "dec r0", "and r0,r0,r1", "or r0,r0,r1", "xor r0,r0,r0",
     "not r0", "shl r0,1", "shr r0,1", "jz l", "jnz l", "j l", "l:"}

CoreArgs == {<<>>, <<"r0=-1", "r1=1">>}

\* Instructions that leave the zero flag true, or false, when run first.
FlagSetters == {"xor r0,r0,r0", "not r2"}

JumpLines == {"jz l", "jnz l", "j l"}

\* Programs with a line the parser rejects after lines it accepts.
MalformedPrograms ==
    {<<"debug", "inc r0", "foo">>, <<"inc r0", "mov r0">>,
     <<"not r1", "debug", "shl r0">>, <<"inc r0", "foo", "debug">>,
     <<"dec r0", "inc r8">>}

\* Longer programs: a jump after an instruction that sets the flag, with the
\* label declared after the jump, before it, twice, or not at all; loops.
Scenarios ==
         {<<s, j, "inc r1", "l:", "inc r3">> : s \in FlagSetters, j \in JumpLines}
    \cup {<<"l:", "inc r1", s, j, "inc r3">> : s \in FlagSetters, j \in JumpLines}
    \cup {<<"l:", s, j, "inc r1", "l:">> : s \in FlagSetters, j \in JumpLines}
    \cup {<<s, j, "m:", "inc r3">> : s \in FlagSetters, j \in JumpLines}
    \cup MalformedPrograms
    \cup {<<"jnz e", "l:", "j l", "e:">>,
          <<"L:", "dec r1", "JNZ l", "Loop: ; again", "m:", "loop:", "M:">>,
          <<"mov r2,r1", "top:", "dec r2", "jz out", "j top", "out:">>}

CorePrograms == SeqsUpTo(CoreLines, MaxLines) \cup Scenarios

\* State::new and the start of main
InitWith(argLists, programs) ==
    /\ args \in argLists
    /\ content \in programs
    /\ overflow_checks = "unobserved"
    /\ argi = 1
    /\ registers = [r \in Registers |-> U64(0)]
    /\ zero = FALSE
    /\ labels = <<>>
    /\ instruction = <<>>
    /\ pc = 0
    /\ status = "running"
    /\ stderr = ""
    /\ steps = 0

Init == InitWith(CoreArgs, CorePrograms)

Spec == Init /\ [][Next]_vars

\* One Add or Sub, with every choice of destination and operands among two
\* registers, run on every pair of the values below.
ArithValues ==
    {"0", "1", "65535", "65536", "4294967296", "9223372036854775808",
     "18446744073709551615"}

ArithArgs == {<<"r0=" \o v, "r1=" \o w>> : v, w \in ArithValues}

ArithLines ==
    {m \o " " \o t \o "," \o a \o "," \o b :
        m \in {"add", "sub"}, t \in {"r0", "r1", "r7"}, a, b \in {"r0", "r1"}}

\* Lines for the parser, each parsed as the first line of a program and as
\* its second line.
CommentMarkers == {"//", ";", "#"}

CommentLines ==
         {"inc r0 " \o a \o " x " \o b \o " y" :
             a \in CommentMarkers \cup {""}, b \in CommentMarkers \cup {""}}
    \cup {"// c", "; c", "# c", "l: # c", "INC R0 ; X", "inc r0 / x", "inc r0;#//"}

OperandLists == {"", "r0", "r0,r1", "r0,r1,r2", "r0,r1,r2,r3", "r0,1", "r0,1,2"}

AllMnemonics ==
    {"zero", "debug", "mov", "add", "sub", "inc", "dec", "and", "or", "xor",
     "not", "shl", "shr", "jz", "jnz", "j"}

OperandCountLines == {m \o " " \o ops : m \in AllMnemonics, ops \in OperandLists}

BigRegisters ==
    {"r8", "r9", "r10", "r008", "r18446744073709551615", "r18446744073709551616"}

RegisterLines ==
         {m \o " " \o r : m \in {"zero", "inc", "dec", "not"},
                            r \in BigRegisters \cup {"r7", "r+8", "r"}}
    \cup {"mov " \o a \o "," \o b : a, b \in {"r7", "r8"}}
    \cup {m \o " " \o a \o ", " \o b \o " ,\t" \o c :
             m \in {"add", "sub", "and", "or", "xor"}, a, b, c \in {"r7", "r8"}}
    \cup {m \o " " \o r \o ",1" : m \in {"shl", "shr"}, r \in {"r7", "r8"}}

\* Lines whose first token is no mnemonic: label declarations, declarations
\* followed by more text, and text without a colon.
LabelLines ==
    {"loop:", "LOOP:  // c", "loop: inc r0", "loop: foo", "foo:bar", "a:b:c",
     "foo", "foo bar", "foo bar:", "loop :", ":", "inc: r0", "r0,r1"}

ParseLines == CommentLines \cup OperandCountLines \cup RegisterLines \cup LabelLines

\* Blank lines and lines that hold nothing but a comment, some with a second
\* marker inside the comment.
CommentOnlyLines ==
    {"", "  ", "// c", "; c", "# c", " \t// c", "// see #12", "# x // y",
     "; a # b", "//a:b ; c"}

ParsePrograms == {<<line>> : line \in ParseLines}
                    \cup {<<"top:", line>> : line \in ParseLines}
                    \cup {<<a, b>> : a, b \in CommentOnlyLines}

ParseArgs == {<<>>, <<"R7=-1">>}

InitParse == InitWith(ParseArgs, ParsePrograms)

SpecParse == InitParse /\ [][Next]_vars

\* One Inc or Dec of a register that holds one of the values, or 0.
IncDecLines == {m \o " " \o r : m \in {"inc", "dec"}, r \in {"r0", "r1", "r7"}}

InitArith == InitWith(ArithArgs, {<<line>> : line \in ArithLines \cup IncDecLines})

SpecArith == InitArith /\ [][Next]_vars

\* Register overrides: values at and around the limits of u64 and i64, text
\* that is no number, register names in and out of range, malformed
\* arguments, and several overrides in one command line.
OverrideValues ==
    {"5", "-1", "0", "-0", "+3", "007", "65536", "-65536",
     "18446744073709551615", "18446744073709551616",
     "9223372036854775808", "-9223372036854775808", "-9223372036854775809",
     "x", "", "-", "1.5", " 1"}

OverrideNames == {"r0", "r7", "r8", "r10", "R7", "R8", "r", "x3", "3", "r+7"}

OverrideArgs ==
         {<<"r3=" \o v>> : v \in OverrideValues}
    \cup {<<n \o "=1">> : n \in OverrideNames}
    \cup {<<>>, <<"r3">>, <<"r3=5=6">>, <<"r8=x">>, <<"r3=5", "r3=-1">>,
          <<"r0=1", "r8=2", "r1=3">>, <<"r1=2", "r2=x", "r3=4">>}

OverridePrograms == {<<>>, <<"inc r3">>, <<"debug", "mov r0,r3">>, <<"foo">>}

InitArgs == InitWith(OverrideArgs, OverridePrograms)

SpecArgs == InitArgs /\ [][Next]_vars

\* One Shl or Shr of r0, which holds one of the values, by an amount below,
\* at or above the register width.
ShiftValues ==
    {"0", "1", "65535", "4294967296", "81985529216486895",
     "9223372036854775808", "18446744073709551615"}

ShiftAmounts ==
    {"0", "1", "15", "16", "17", "32", "47", "63", "64", "65", "128",
     "4294967296", "18446744073709551615"}

ShiftLines == {m \o " r0," \o a : m \in {"shl", "shr"}, a \in ShiftAmounts}

InitShift == InitWith({<<"r0=" \o v>> : v \in ShiftValues},
                      {<<line>> : line \in ShiftLines})

SpecShift == InitShift /\ [][Next]_vars

\* The execution loop is a single thread that nothing suspends for good: an
\* iteration that can be taken is taken, and so is the return from main.  (A
\* Debug that gets no input line is the iteration that ends in the IO error.)
SpecShiftFair == SpecShift /\ WF_vars(Step) /\ WF_vars(Finish)

\* ========================================================================
\* Properties
\* ========================================================================

\* main is in its execution loop, about to execute instruction[pc]: every
\* step taken from such a state is a Step.
Executing == status = "running" /\ ArgsDone /\ ParseDone /\ pc # Len(instruction)

\* The instruction about to be executed (instruction[pc], 0-based).
Fetched == instruction[pc + 1]

JumpOps == {"J", "Jz", "Jnz"}

FlagOps == {"Add", "Sub", "Inc", "Dec", "And", "Or", "Xor", "Not"}

\* The jump about to be executed is taken.
Taken ==
    \/ Fetched.op = "J"
    \/ Fetched.op = "Jz" /\ zero
    \/ Fetched.op = "Jnz" /\ ~zero

\* The register an instruction writes.
Dest(self) == IF self.op \in {"Mov", "Add", "Sub", "And", "Or", "Xor"}
              THEN self.to ELSE self.reg

\* ------------------------------------------------------------------------
\* C1.  With its label in the label table, Jz continues at the label's index
\* when the zero flag is true and at pc+1 otherwise, Jnz at the label's index
\* when the flag is false and at pc+1 otherwise, J always at the label's
\* index; none of them changes a register or the flag.
\* ------------------------------------------------------------------------
ThmC1 ==
    [][(Executing /\ Fetched.op \in JumpOps /\ Fetched.label \in DOMAIN labels)
        => /\ status' = "running"
           /\ pc' = (IF Taken THEN labels[Fetched.label] ELSE pc + 1)
           /\ registers' = registers
           /\ zero' = zero]_vars

\* A Jz was taken over "inc r1": the run ended with r1 untouched.
WitC1 ==
    /\ content = <<"xor r0,r0,r0", "jz l", "inc r1", "l:", "inc r3">>
    /\ args = <<>>
    /\ status = "finished"
    /\ registers[1] = U64(0)
    /\ registers[3] = U64(1)

\* ------------------------------------------------------------------------
\* C2 as stated.  Whenever execution reaches a J, Jz or Jnz whose label is
\* not in the label table, the run ends in the fatal "unknown label" error
\* naming the 1-based line of the jump.
\* ------------------------------------------------------------------------
CexC2 ==
    [][(Executing /\ Fetched.op \in JumpOps /\ Fetched.label \notin DOMAIN labels)
        => /\ status' = "exit1"
           /\ stderr' = UnknownLabel(Fetched.label, pc)]_vars

\* The line being parsed starts with a jump mnemonic.
Parsing == status = "running" /\ ArgsDone /\ ~ParseDone

CurrentLine == content[Len(instruction) + 1]

CurrentMnemonic ==
    LET first == FirstToken(StripComment(to_lowercase(CurrentLine)))
    IN  IF first = None THEN "" ELSE Unwrap(first)

\* ------------------------------------------------------------------------
\* C2, amended.  A jump line is accepted by the parser whatever its label.
\* When execution reaches a jump that is taken (a J, a Jz with the flag true,
\* a Jnz with the flag false) and whose label is not in the label table, the
\* run ends in the fatal "unknown label" error naming the 1-based line of the
\* jump, with pc, registers and flag as they were.  A Jz or Jnz that is not
\* taken continues at pc+1 whether its label is declared or not.
\* ------------------------------------------------------------------------
ThmC2 ==
    /\ [][(Parsing /\ CurrentMnemonic \in {"j", "jz", "jnz"})
            => /\ status' = "running"
               /\ Len(instruction') = Len(instruction) + 1
               /\ instruction'[Len(instruction')].op \in JumpOps]_vars
    /\ [][(Executing /\ Fetched.op \in JumpOps /\ Fetched.label \notin DOMAIN labels)
            => IF Taken
               THEN /\ status' = "exit1"
                    /\ stderr' = "unknown label " \o Quoted(Fetched.label)
                                    \o " on line " \o ToString(pc + 1)
                    /\ UNCHANGED <<pc, registers, zero>>
               ELSE /\ status' = "running"
                    /\ pc' = pc + 1]_vars

\* A taken Jz on the second line, to a label no line declares, ended the run.
WitC2 ==
    /\ status = "exit1"
    /\ ArgsDone /\ ParseDone
    /\ pc = 1
    /\ Len(instruction) > pc
    /\ Fetched.op = "Jz"
    /\ zero
    /\ Fetched.label \notin DOMAIN labels
    /\ stderr = "unknown label 'l' on line 2"

\* ------------------------------------------------------------------------
\* C3.  The zero flag is false until one of Add, Sub, Inc, Dec, And, Or, Xor,
\* Not executes; each of these leaves it equal to (written value = 0); every
\* other instruction, and every other step of the process, leaves it as it
\* was.
\* ------------------------------------------------------------------------
ThmC3 ==
    /\ zero = FALSE
    /\ [][IF Executing /\ Fetched.op \in FlagOps
          THEN zero' = IsZero(registers'[Dest(Fetched)])
          ELSE zero' = zero]_vars

\* The flag is true after a Mov wrote 1: the Xor before it set it.
WitC3 ==
    /\ content = <<"xor r0,r0,r0", "mov r0,r1">>
    /\ args = <<"r0=-1", "r1=1">>
    /\ status = "finished"
    /\ zero
    /\ registers[0] = U64(1)

\* r = (a + b) mod 2^64, by the digits: some carries c, none into the lowest
\* digit, make a[i] + b[i] + c[i] = r[i] + LimbBase * c[i+1] at every digit;
\* the carry out of the highest digit is what the modulus drops.
IsSumMod(a, b, r) ==
    \E c \in [1..(NumLimbs + 1) -> {0, 1}] :
        /\ c[1] = 0
        /\ \A i \in 1..NumLimbs : a[i] + b[i] + c[i] = r[i] + LimbBase * c[i + 1]

\* ------------------------------------------------------------------------
\* C4.  Add writes (op1 + op2) mod 2^64 and Sub writes (op1 - op2) mod 2^64
\* into the destination, whatever the operand values and the choice of
\* registers, sets the zero flag iff the written value is 0, leaves the other
\* registers alone and never ends the run; 2^64-1 plus 1 is 0 with the flag
\* true, 0 minus 1 is 2^64-1 with the flag false.
\* ------------------------------------------------------------------------
ThmC4 ==
    [][(Executing /\ Fetched.op \in {"Add", "Sub"})
        => LET a == registers[Fetched.op1]
               b == registers[Fetched.op2]
               r == registers'[Fetched.to]
           IN  /\ status' = "running"
               /\ pc' = pc + 1
               /\ IsU64(r)
               /\ Fetched.op = "Add" => IsSumMod(a, b, r)
               /\ Fetched.op = "Sub" => IsSumMod(r, b, a)
               /\ zero' = IsZero(r)
               /\ \A x \in Registers \ {Fetched.to} : registers'[x] = registers[x]
               /\ (Fetched.op = "Add" /\ a = U64Max /\ b = U64(1))
                    => (r = U64(0) /\ zero')
               /\ (Fetched.op = "Sub" /\ a = U64(0) /\ b = U64(1))
                    => (r = U64Max /\ ~zero')]_vars

\* 2^64-1 plus 1 was written to r0 as 0 and the flag is true.
WitC4 ==
    /\ args = <<"r0=18446744073709551615", "r1=1">>
    /\ content = <<"add r0,r0,r1">>
    /\ status = "finished"
    /\ registers[0] = U64(0)
    /\ registers[1] = U64(1)
    /\ zero

KnownMnemonics ==
    {"zero", "debug", "mov", "add", "sub", "inc", "dec", "and", "or", "xor",
     "not", "shl", "shr", "jz", "jnz", "j"}

\* The first token of a source line once lowercased and without its comment
\* ("" when there is none).
Mnemonic(line) ==
    LET first == FirstToken(StripComment(to_lowercase(line)))
    IN  IF first = None THEN "" ELSE Unwrap(first)

IsBlank(line) == Mnemonic(line) = ""

\* The line declares a label: its first token is no mnemonic and holds a colon.
DeclaresLabel(line) ==
    /\ Mnemonic(line) \notin KnownMnemonics \cup {""}
    /\ Find(Mnemonic(line), ":", 1) > 0

\* The name declared: the text before the first colon.
DeclaredName(line) == Prefix(Mnemonic(line), Find(Mnemonic(line), ":", 1) - 1)

\* The lines of a program (1-based) that declare the name.
Declarations(lines, name) ==
    {i \in 1..Len(lines) : DeclaresLabel(lines[i]) /\ DeclaredName(lines[i]) = name}

Last(S) == CHOOSE i \in S : \A j \in S : j <= i

\* Every name declared in the lines, with the 0-based index of the last line
\* that declares it.
LastDeclared(lines) ==
    [name \in {DeclaredName(lines[i]) :
                  i \in {j \in 1..Len(lines) : DeclaresLabel(lines[j])}}
        |-> Last(Declarations(lines, name)) - 1]

\* ------------------------------------------------------------------------
\* C5.  The parser emits one instruction per source line, in order: never
\* more instructions than lines, exactly as many once execution starts or the
\* run finishes, a Noop for every blank line and label declaration; and the
\* label table maps every name declared in the lines parsed so far to the
\* 0-based index of the last of them that declares it, hence, once parsing
\* is over, of the last line of the program that declares it.
\* ------------------------------------------------------------------------
ThmC5 ==
    /\ Len(instruction) <= Len(content)
    /\ (steps > 0 \/ status = "finished") => Len(instruction) = Len(content)
    /\ \A i \in 1..Len(instruction) :
          (IsBlank(content[i]) \/ DeclaresLabel(content[i])) => instruction[i] = Noop
    /\ labels = LastDeclared(SubSeq(content, 1, Len(instruction)))
    /\ (ArgsDone /\ ParseDone) => labels = LastDeclared(content)

\* A program whose seven lines declare l once, loop twice and m twice, in
\* either case and with a comment, was parsed: loop maps to line index 5, m
\* to 6.
WitC5 ==
    /\ content = <<"L:", "dec r1", "JNZ l", "Loop: ; again", "m:", "loop:", "M:">>
    /\ ArgsDone /\ ParseDone
    /\ Len(instruction) = 7
    /\ DOMAIN labels = {"l", "loop", "m"}
    /\ labels["l"] = 0
    /\ labels["loop"] = 5
    /\ labels["m"] = 6

\* The lines handed to the parser so far (1-based): those parsed, and the one
\* on which the parser failed.
ParseFailed == status = "exit1" /\ ArgsDone /\ ~ParseDone

HandedToParser ==
    1..(IF ParseFailed THEN Len(instruction) + 1 ELSE Len(instruction))

\* The position of the earliest occurrence of any comment marker, 0 if none.
EarliestMarker(s) ==
    LET hits == {Find(s, m, 1) : m \in CommentMarkers} \ {0}
    IN  IF hits = {} THEN 0 ELSE CHOOSE k \in hits : \A j \in hits : k <= j

BeforeEarliestMarker(s) ==
    IF EarliestMarker(s) = 0 THEN s ELSE Prefix(s, EarliestMarker(s) - 1)

\* ------------------------------------------------------------------------
\* C6.  For every line handed to the parser, the text that is tokenized is
\* the prefix of the lowercased line that precedes the earliest occurrence
\* of any of the markers //, ; and #.
\* ------------------------------------------------------------------------
CexC6 ==
    \A i \in HandedToParser :
        StripComment(to_lowercase(content[i]))
            = BeforeEarliestMarker(to_lowercase(content[i]))

\* The number of comma-separated operands that follow the mnemonic.
OperandCount(line) ==
    LET code == StripComment(to_lowercase(line))
        rest == collect(Advance(split_whitespace(code)))
    IN  IF rest = "" THEN 0 ELSE Len(split(rest, ","))

\* The number of operands of the mnemonic's shape.
RequiredOperands(m) ==
    CASE m = "debug" -> 0
      [] m \in {"zero", "inc", "dec", "not", "jz", "jnz", "j"} -> 1
      [] m \in {"mov", "shl", "shr"} -> 2
      [] m \in {"add", "sub", "and", "or", "xor"} -> 3

\* ------------------------------------------------------------------------
\* C7.  A line whose known mnemonic is followed by more comma-separated
\* operands than its shape requires aborts parsing, as a line with too few
\* does: the process exits with an error and no instruction is produced.
\* ------------------------------------------------------------------------
CexC7 ==
    [][(/\ Parsing
        /\ Mnemonic(CurrentLine) \in KnownMnemonics
        /\ OperandCount(CurrentLine) > RequiredOperands(Mnemonic(CurrentLine)))
        => /\ status' = "exit1"
           /\ instruction' = instruction]_vars

\* Some unconditional jump of the program targets a label at or before it.
HasBackwardJump ==
    \E i \in 1..Len(instruction) :
        /\ instruction[i].op = "J"
        /\ instruction[i].label \in DOMAIN labels
        /\ labels[instruction[i].label] <= i - 1

\* ------------------------------------------------------------------------
\* C8 as stated, its last part.  A program that contains an unconditional
\* jump to a label at or before it never terminates.
\* ------------------------------------------------------------------------
CexC8 == (ArgsDone /\ ParseDone /\ HasBackwardJump) => status # "finished"

\* Instructions that always continue at pc+1 and cannot end the run.
StraightOps ==
    {"Noop", "Zero", "Mov", "Add", "Sub", "Inc", "Dec", "And", "Or", "Xor", "Not"}

\* pc is inside a closed loop: between a label and an unconditional jump back
\* to it, with nothing but straight-line instructions in between.
Looping ==
    /\ ArgsDone /\ ParseDone
    /\ \E i \in 1..Len(instruction) :
          /\ instruction[i].op = "J"
          /\ instruction[i].label \in DOMAIN labels
          /\ LET k == labels[instruction[i].label]
             IN  /\ k <= i - 1
                 /\ \A j \in (k + 1)..(i - 1) : instruction[j].op \in StraightOps
                 /\ pc \in k..(i - 1)

\* ------------------------------------------------------------------------
\* C8, amended.  Execution starts at pc = 0 and terminates exactly when pc
\* equals the instruction count N: the run never ends normally with pc < N,
\* at pc = N it can only finish, and no instruction is executed then.  Once
\* pc is inside a closed loop (from a label to an unconditional jump back to
\* it, with only instructions that neither jump, shift nor break in between,
\* as in l: followed by j l) it stays inside and the run never ends; a
\* program that merely contains such a jump may terminate.
\* ------------------------------------------------------------------------
ThmC8 ==
    /\ [](steps = 0 => pc = 0)
    /\ [](status = "finished" => (ArgsDone /\ ParseDone /\ pc = Len(instruction)))
    /\ []((status = "running" /\ ArgsDone /\ ParseDone /\ pc = Len(instruction))
            => ENABLED Finish)
    /\ [][(ArgsDone /\ ParseDone /\ pc = Len(instruction))
            => /\ status' = "finished"
               /\ UNCHANGED <<pc, registers, zero, labels, instruction, steps>>]_vars
    /\ [](Looping => status = "running")
    /\ [][Looping => Looping']_vars

\* The program l: / j l has been round its loop twice and is still running.
WitC8 ==
    /\ content = <<"l:", "j l">>
    /\ Looping
    /\ steps >= 4
    /\ status = "running"

\* ------------------------------------------------------------------------
\* C9.  The label table is complete before the first instruction executes,
\* so a taken jump to a label that some line declares continues at the
\* 0-based index of the last line declaring it, whether that line comes after
\* the jump or before it.
\* ------------------------------------------------------------------------
ThmC9 ==
    /\ [](steps > 0 => labels = LastDeclared(content))
    /\ [][(/\ Executing
           /\ Fetched.op \in JumpOps
           /\ Taken
           /\ Declarations(content, Fetched.label) # {})
            => /\ status' = "running"
               /\ pc' = Last(Declarations(content, Fetched.label)) - 1]_vars

\* A J on line index 1 to a label declared on line index 3 skipped "inc r1".
WitC9 ==
    /\ content = <<"not r2", "j l", "inc r1", "l:", "inc r3">>
    /\ args = <<>>
    /\ steps = 2
    /\ labels["l"] = 3
    /\ pc = 3
    /\ status = "running"
    /\ registers[1] = U64(0)

IsDecimal(d) == d # "" /\ \A k \in 1..Len(d) : DigitVal(Char(d, k)) >= 0

\* The operand is r<N> for a decimal number N >= 8: a digit before the last
\* one is not 0, or the last one is 8 or 9.
IsBigRegister(p) ==
    /\ starts_with(p, "r")
    /\ LET d == Suffix(p, 2)
       IN  /\ IsDecimal(d)
           /\ \/ \E k \in 1..(Len(d) - 1) : Char(d, k) # "0"
              \/ Char(d, Len(d)) \in {"8", "9"}

\* The positions of the register operands of a mnemonic.
RegisterPositions(m) ==
    CASE m \in {"zero", "inc", "dec", "not", "shl", "shr"} -> {1}
      [] m = "mov" -> {1, 2}
      [] m \in {"add", "sub", "and", "or", "xor"} -> {1, 2, 3}
      [] OTHER -> {}

\* The line names a register r<N>, N >= 8, at a register position.
NamesBigRegister(line) ==
    LET ops == Operands(StripComment(to_lowercase(line)))
    IN  \E k \in RegisterPositions(Mnemonic(line)) :
            k <= Len(ops) /\ IsBigRegister(ops[k])

\* The register indices an instruction holds.
RegisterFields(self) ==
    CASE self.op \in {"Zero", "Inc", "Dec", "Not", "Shl", "Shr"} -> {self.reg}
      [] self.op = "Mov" -> {self.to, self.from}
      [] self.op \in {"Add", "Sub", "And", "Or", "Xor"} -> {self.to, self.op1, self.op2}
      [] OTHER -> {}

\* ------------------------------------------------------------------------
\* C10.  A line that names a register r<N> with N >= 8 at a register position
\* of its mnemonic is rejected when it is parsed: the process exits with an
\* error and no instruction is produced.  Every register index held by a
\* parsed instruction is in 0..7.
\* ------------------------------------------------------------------------
ThmC10 ==
    /\ [](\A i \in 1..Len(instruction) : RegisterFields(instruction[i]) \subseteq Registers)
    /\ [][(Parsing /\ NamesBigRegister(CurrentLine))
            => /\ status' = "exit1"
               /\ stderr' # ""
               /\ instruction' = instruction]_vars

\* The third operand of an add on the second line is r8: the parser stopped.
WitC10 ==
    /\ content = <<"top:", "add r7, r7 ,\tr8">>
    /\ status = "exit1"
    /\ stderr = "r8 does not exist"
    /\ Len(instruction) = 1

\* ------------------------------------------------------------------------
\* C11.  A line whose known mnemonic is followed by fewer operands than its
\* shape requires (a register mnemonic without its register, shl or shr
\* without its immediate, j, jz or jnz without a label) aborts parsing: the
\* process exits with an error and no instruction is produced.
\* ------------------------------------------------------------------------
CexC11 ==
    [][(/\ Parsing
        /\ Mnemonic(CurrentLine) \in KnownMnemonics
        /\ OperandCount(CurrentLine) < RequiredOperands(Mnemonic(CurrentLine)))
        => /\ status' = "exit1"
           /\ instruction' = instruction]_vars

\* A line the parser must reject: a first token that is neither a mnemonic
\* nor holds a colon, a register or immediate operand that is absent, or a
\* register r<N> with N >= 8.
Malformed(line) ==
    LET m == Mnemonic(line)
    IN  \/ /\ m \notin KnownMnemonics \cup {""}
           /\ Find(m, ":", 1) = 0
        \/ /\ m \in KnownMnemonics \ {"j", "jz", "jnz"}
           /\ \/ OperandCount(line) < RequiredOperands(m)
              \/ NamesBigRegister(line)

\* ------------------------------------------------------------------------
\* C12.  No instruction executes before every override is applied and every
\* line is parsed; until then pc is 0, the flag is false, and parsing leaves
\* the registers as the overrides set them.  A program with a malformed
\* line, on whatever line, never executes an instruction and never finishes.
\* ------------------------------------------------------------------------
ThmC12 ==
    /\ [](steps > 0 => (argi > Len(args) /\ Len(instruction) = Len(content)))
    /\ [](steps = 0 => (pc = 0 /\ zero = FALSE))
    /\ [][(ArgsDone /\ steps' = 0) => registers' = registers]_vars
    /\ []((steps > 0 \/ status = "finished")
            => \A i \in 1..Len(content) : ~Malformed(content[i]))

\* The third line is garbage: the process exited before the Debug and the Inc
\* of the first two lines could act.
WitC12 ==
    /\ content = <<"debug", "inc r0", "foo">>
    /\ args = <<>>
    /\ status = "exit1"
    /\ stderr = "garbage instruction 'foo'"
    /\ Len(instruction) = 2
    /\ steps = 0
    /\ registers[0] = U64(0)

\* A decimal numeral without its leading zeros.
RECURSIVE Canonical(_)
Canonical(d) ==
    IF Len(d) > 1 /\ Char(d, 1) = "0" THEN Canonical(Suffix(d, 2)) ELSE d

RECURSIVE LexLE(_, _, _)
LexLE(a, b, i) ==
    \/ i > Len(a)
    \/ DigitVal(Char(a, i)) < DigitVal(Char(b, i))
    \/ DigitVal(Char(a, i)) = DigitVal(Char(b, i)) /\ LexLE(a, b, i + 1)

\* a <= b for two decimal numerals without leading zeros.
DecLE(a, b) == Len(a) < Len(b) \/ (Len(a) = Len(b) /\ LexLE(a, b, 1))

\* The text of an override before and after its first '='.
OverrideName(arg) == Prefix(arg, Find(arg, "=", 1) - 1)

OverrideValue(arg) == Suffix(arg, Find(arg, "=", 1) + 1)

ValueSign(v) == IF v # "" /\ Char(v, 1) \in {"+", "-"} THEN Char(v, 1) ELSE ""

ValueDigits(v) == IF ValueSign(v) = "" THEN v ELSE Suffix(v, 2)

\* The value is a decimal numeral of an unsigned 64-bit integer.
IsUnsignedValue(v) ==
    /\ ValueSign(v) # "-"
    /\ IsDecimal(ValueDigits(v))
    /\ DecLE(Canonical(ValueDigits(v)), "18446744073709551615")

\* The value is a negative decimal numeral of a signed 64-bit integer.
IsNegativeValue(v) ==
    /\ ValueSign(v) = "-"
    /\ IsDecimal(ValueDigits(v))
    /\ DecLE(Canonical(ValueDigits(v)), "9223372036854775808")

\* The override is r<N>=<value> with N in 0..7.
NamesRegister(arg) ==
    /\ Find(arg, "=", 1) > 0
    /\ OverrideName(arg) \in {"r" \o ToString(n) : n \in Registers}

NamedRegister(arg) == DigitVal(Char(arg, 2))

\* 2^64 - v, modulo 2^64
Negated(v) == wrapping_add(bitnot(v), U64(1))

\* No override names register r: its digit is in none of the names.
Unnamed(r) ==
    \A k \in 1..Len(args) :
        Find(args[k], "=", 1) = 0 \/ Find(OverrideName(args[k]), ToString(r), 1) = 0

\* The loop over the overrides is about to interpret args[argi].
Overriding == status = "running" /\ ~ArgsDone

\* ------------------------------------------------------------------------
\* C13.  An override r<N>=<value>, N in 0..7, whose value is the numeral of
\* an unsigned 64-bit integer leaves register N holding that integer; one
\* whose value is a negative numeral of a signed 64-bit integer leaves it
\* holding 2^64 minus the magnitude; no other register and not the flag
\* changes.  An override whose value is neither, or whose register is r<N>
\* with N >= 8, ends the process with an error.  All of this happens before
\* any line is parsed; the flag starts false and a register that no override
\* names holds 0 when execution starts.
\* ------------------------------------------------------------------------
ThmC13 ==
    /\ [](~ArgsDone => (instruction = <<>> /\ steps = 0))
    /\ [](steps = 0 => zero = FALSE)
    /\ []((ArgsDone /\ steps = 0)
            => \A r \in Registers : Unnamed(r) => registers[r] = U64(0))
    /\ [][Overriding =>
            LET arg == args[argi]
                v == OverrideValue(arg)
                n == NamedRegister(arg)
            IN  /\ (NamesRegister(arg) /\ (IsUnsignedValue(v) \/ IsNegativeValue(v)))
                     => /\ status' = "running"
                        /\ argi' = argi + 1
                        /\ IsU64(registers'[n])
                        /\ IsUnsignedValue(v)
                             => Display(registers'[n]) = Canonical(ValueDigits(v))
                        /\ IsNegativeValue(v)
                             => Display(Negated(registers'[n])) = Canonical(ValueDigits(v))
                        /\ \A r \in Registers \ {n} : registers'[r] = registers[r]
                        /\ zero' = zero
                /\ (Find(arg, "=", 1) > 0 /\ ~IsUnsignedValue(v) /\ ~IsNegativeValue(v))
                     => /\ status' = "exit1"
                        /\ stderr' = "Unable to parse arg: " \o Quoted(arg)
                        /\ registers' = registers
                /\ (/\ Find(arg, "=", 1) > 0
                    /\ IsBigRegister(OverrideName(arg))
                    /\ (IsUnsignedValue(v) \/ IsNegativeValue(v)))
                     => /\ status' = "exit1"
                        /\ stderr' = "r" \o Canonical(Suffix(OverrideName(arg), 2))
                                         \o " does not exist"
                        /\ registers' = registers]_vars

\* r3=-1 left register 3 at 2^64-1 and the others at 0; the run of the empty
\* program finished with the flag false.
WitC13 ==
    /\ args = <<"r3=-1">>
    /\ content = <<>>
    /\ status = "finished"
    /\ registers[3] = U64Max
    /\ \A r \in Registers \ {3} : registers[r] = U64(0)
    /\ zero = FALSE

\* The Add (for Inc) or Sub (for Dec) of register r and a register holding 1,
\* written to r, applied to the current state.
AddSubOfOne(self) ==
    LET r == self.reg
        other == (r + 1) % NumRegs
        st == [registers |-> [registers EXCEPT ![other] = U64(1)],
               zero |-> zero, labels |-> labels]
        ref == [op |-> IF self.op = "Inc" THEN "Add" ELSE "Sub",
                to |-> r, op1 |-> r, op2 |-> other]
    IN  apply(ref, st, pc, TRUE, overflow_checks).val

\* ------------------------------------------------------------------------
\* C14.  Inc r leaves in r, in the zero flag and in pc what an Add of r and a
\* register holding 1, written to r, leaves there; Dec r what such a Sub
\* leaves.  The value written is (v + 1) mod 2^64, resp. (v - 1) mod 2^64:
\* 2^64-1 becomes 0 with the flag true, 0 becomes 2^64-1 with the flag false.
\* No other register changes and the run goes on.
\* ------------------------------------------------------------------------
ThmC14 ==
    [][(Executing /\ Fetched.op \in {"Inc", "Dec"})
        => LET r == Fetched.reg
               v == registers[r]
               w == registers'[r]
           IN  /\ status' = "running"
               /\ pc' = AddSubOfOne(Fetched).next
               /\ w = AddSubOfOne(Fetched).state.registers[r]
               /\ zero' = AddSubOfOne(Fetched).state.zero
               /\ Fetched.op = "Inc" => IsSumMod(v, U64(1), w)
               /\ Fetched.op = "Dec" => IsSumMod(w, U64(1), v)
               /\ (Fetched.op = "Inc" /\ v = U64Max) => (w = U64(0) /\ zero')
               /\ (Fetched.op = "Dec" /\ v = U64(0)) => (w = U64Max /\ ~zero')
               /\ \A x \in Registers \ {r} : registers'[x] = registers[x]]_vars

\* Dec of a register holding 0 wrote 2^64-1 and left the flag false.
WitC14 ==
    /\ args = <<"r0=1", "r1=0">>
    /\ content = <<"dec r1">>
    /\ status = "finished"
    /\ registers[1] = U64Max
    /\ registers[0] = U64(1)
    /\ zero = FALSE

\* Nothing but blanks precedes the earliest comment marker of the line, or
\* the end of a line without a comment.
CommentOnly(line) == trim(BeforeEarliestMarker(to_lowercase(line))) = ""

\* ------------------------------------------------------------------------
\* C15.  A program made only of blank lines and of lines that hold nothing
\* but a comment started by //, ; or #, run without overrides, is parsed
\* without error to one Noop per line, declares no label, changes no
\* register and not the flag, and finishes after as many steps as it has
\* lines.
\* ------------------------------------------------------------------------
CexC15 ==
    (args = <<>> /\ \A i \in 1..Len(content) : CommentOnly(content[i]))
        => /\ status \in {"running", "finished"}
           /\ \A i \in 1..Len(instruction) : instruction[i] = Noop
           /\ labels = <<>>
           /\ registers = [r \in Registers |-> U64(0)]
           /\ zero = FALSE
           /\ status = "finished" => steps = Len(content)

\* Instructions that write a register.
WritingOps ==
    {"Zero", "Mov", "Add", "Sub", "Inc", "Dec", "And", "Or", "Xor", "Not",
     "Shl", "Shr"}

\* ------------------------------------------------------------------------
\* C16.  Executing an instruction leaves the label table and the instruction
\* vector as they were.  An instruction that writes a register changes no
\* register but its destination (to, or reg); Noop, Debug, J, Jz and Jnz
\* change no register and not the flag.  The label table does not change
\* once parsing is over.
\* ------------------------------------------------------------------------
ThmC16 ==
    /\ [][Executing
            => /\ labels' = labels
               /\ instruction' = instruction
               /\ Fetched.op \in WritingOps
                    => \A r \in Registers \ {Dest(Fetched)} : registers'[r] = registers[r]
               /\ Fetched.op \notin WritingOps
                    => (registers' = registers /\ zero' = zero)]_vars
    /\ [][(ArgsDone /\ ParseDone) => labels' = labels]_vars

\* Mov wrote r1's 1 over r0's 2^64-1: r1 still holds 1 and r2..r7 hold 0.
WitC16 ==
    /\ args = <<"r0=-1", "r1=1">>
    /\ content = <<"mov r0,r1">>
    /\ status = "finished"
    /\ registers[0] = U64(1)
    /\ registers[1] = U64(1)
    /\ \A r \in 2..(NumRegs - 1) : registers[r] = U64(0)

\* The whole line, once lowercased and without its comment, is <name>: - one
\* token whose only colon is its last character.
IsDeclaration(line) ==
    LET tokens == split_whitespace(StripComment(to_lowercase(line)))
    IN  /\ Len(tokens) = 1
        /\ Find(tokens[1], ":", 1) = Len(tokens[1])

\* ------------------------------------------------------------------------
\* C17.  A line whose first token is not a known mnemonic is accepted only
\* when the whole comment-stripped line is <name>: - then the name is put in
\* the label table at the index of the line, and the line yields a Noop.
\* Every other such line, one with text after the colon included, ends the
\* process with the "garbage instruction" error and changes no label.
\* ------------------------------------------------------------------------
CexC17 ==
    [][(Parsing /\ Mnemonic(CurrentLine) \notin KnownMnemonics \cup {""})
        => IF IsDeclaration(CurrentLine)
           THEN /\ status' = "running"
                /\ instruction' = Append(instruction, Noop)
                /\ DeclaredName(CurrentLine) \in DOMAIN labels'
                /\ labels'[DeclaredName(CurrentLine)] = Len(instruction)
           ELSE /\ status' = "exit1"
                /\ starts_with(stderr', "garbage instruction")
                /\ instruction' = instruction
                /\ labels' = labels]_vars

\* Bit i (0 is the lowest) of a 64-bit value.
Bit(v, i) == (v[(i \div LimbBits) + 1] \div (2 ^ (i % LimbBits))) % 2

\* w is v shifted by n bits in the direction of the instruction, zeros coming
\* in: (v * 2^n) mod 2^64 for Shl, floor(v / 2^n) for Shr.
IsShifted(self, v, n, w) ==
    /\ IsU64(w)
    /\ \A i \in 0..(NumLimbs * LimbBits - 1) :
          Bit(w, i) = IF self.op = "Shl"
                      THEN (IF i >= n THEN Bit(v, i - n) ELSE 0)
                      ELSE (IF i + n < NumLimbs * LimbBits THEN Bit(v, i + n) ELSE 0)

\* ------------------------------------------------------------------------
\* C18.  Shl and Shr leave the zero flag and the other registers as they
\* were and never end the run: execution continues at pc+1.  For an amount
\* a < 64, Shl writes (reg * 2^a) mod 2^64 and Shr writes floor(reg / 2^a);
\* for an amount a >= 64 the value written is that of a shift by a mod 64,
\* or 0.
\* ------------------------------------------------------------------------
CexC18 ==
    [][(Executing /\ Fetched.op \in {"Shl", "Shr"})
        => LET v == registers[Fetched.reg]
               w == registers'[Fetched.reg]
               a == Fetched.amount
           IN  /\ status' = "running"
               /\ pc' = pc + 1
               /\ zero' = zero
               /\ \A r \in Registers \ {Fetched.reg} : registers'[r] = registers[r]
               /\ ~ShiftOverflows(a) => IsShifted(Fetched, v, a[1], w)
               /\ ShiftOverflows(a)
                    => \/ IsShifted(Fetched, v, a[1] % (NumLimbs * LimbBits), w)
                       \/ w = U64(0)]_vars

\* ------------------------------------------------------------------------
\* C19.  pc is always in 0..N, N the number of instructions, and an
\* instruction is fetched only with pc < N.  Every index in the label table
\* is less than N, so a taken jump that finds its label leaves pc < N: it
\* never moves pc past the end, nor to N itself.
\* ------------------------------------------------------------------------
ThmC19 ==
    /\ [](pc \in 0..Len(instruction))
    /\ [](\A l \in DOMAIN labels : labels[l] \in 0..(Len(instruction) - 1))
    /\ [](Executing => pc < Len(instruction))
    /\ [][(Executing /\ Fetched.op \in JumpOps /\ Taken /\ status' = "running")
            => pc' \in 0..(Len(instruction) - 1)]_vars

\* A J on line index 2 went to the label declared on the last line, index 4
\* of 5.
WitC19 ==
    /\ content = <<"l:", "not r2", "j l", "inc r1", "l:">>
    /\ status = "running"
    /\ steps = 3
    /\ labels["l"] = 4
    /\ pc = 4
    /\ Len(instruction) = 5

\* The program is parsed and each of its jumps finds its label on a later
\* line.
ForwardOnly ==
    /\ ArgsDone /\ ParseDone
    /\ \A i \in 1..Len(instruction) :
          instruction[i].op \in JumpOps
            => /\ instruction[i].label \in DOMAIN labels
               /\ labels[instruction[i].label] > i - 1

NoJumps == \A i \in 1..Len(instruction) : instruction[i].op \notin JumpOps

\* The run ended because a Debug breakpoint got no input line.
InputClosed == status = "exit1" /\ stderr = "IO error. Did you close stdin?"

\* ------------------------------------------------------------------------
\* C20.  In a parsed program whose jumps all target a label declared on a
\* later line, every step increases pc and keeps the run going, unless it is
\* a Debug that gets no input; no more steps are taken than there are lines,
\* exactly as many when the run finishes and there is no jump; and the run
\* does finish, with pc at the number of lines, unless a Debug gets no input.
\* ------------------------------------------------------------------------
CexC20 ==
    /\ [][(Executing /\ ForwardOnly)
            => \/ status' = "running" /\ pc' > pc
               \/ Fetched.op = "Debug" /\ InputClosed']_vars
    /\ [](ForwardOnly => steps <= Len(instruction))
    /\ []((ForwardOnly /\ NoJumps /\ status = "finished")
            => steps = Len(instruction))
    /\ [](ForwardOnly
            => <>(InputClosed \/ (status = "finished" /\ pc = Len(instruction))))

====
